---- MODULE Spec2Model ----
(***************************************************************************)
(* HelpScout MCP server (src/helpscout-mcp/server.py).                     *)
(*                                                                         *)
(* Four tools (search_articles, get_article, list_collections,             *)
(* list_articles), each a coroutine: check the API key, open an            *)
(* httpx.AsyncClient, send one GET, raise_for_status, parse the JSON,      *)
(* close the client, render text.  A coroutine is split at its awaits:     *)
(* the other invocations run only while one is suspended.                  *)
(*                                                                         *)
(* JSON objects are functions whose DOMAIN is the set of keys present, so  *)
(* dict.get(key, default) is Get.  Texts that the code strips are          *)
(* sequences of one-character strings.  The returned text is the list      *)
(* lines, one record per line: its f-string template t and the values     *)
(* formatted into it (the backquotes of the templates are left out).       *)
(***************************************************************************)
EXTENDS Integers, Sequences, FiniteSets, TLC

VARIABLES HELPSCOUT_API_KEY, inv, clients

vars == <<HELPSCOUT_API_KEY, inv, clients>>

(***************************************************************************)
(* Bounds of the model.                                                    *)
(***************************************************************************)
NumInvocations == 2
MaxItems == 2
MaxPages == 3

Invocations == 1..NumInvocations

(***************************************************************************)
(* Python values.                                                          *)
(***************************************************************************)
None == "<None>"
EmptyDict == [k \in {} |-> 0]

Get(d, key, default) == IF key \in DOMAIN d THEN d[key] ELSE default

Truthy(s) == s # None /\ s # ""

Min(a, b) == IF a < b THEN a ELSE b

Last(s) == s[Len(s)]

IsSpace(c) == c \in {" ", "\t", "\n"}

RECURSIVE LStrip(_)
LStrip(s) ==
    IF s # <<>> /\ IsSpace(Head(s)) THEN LStrip(Tail(s)) ELSE s

RECURSIVE RStrip(_)
RStrip(s) ==
    IF s # <<>> /\ IsSpace(Last(s)) THEN RStrip(SubSeq(s, 1, Len(s) - 1)) ELSE s

Strip(s) == RStrip(LStrip(s))

Line(t, values) == [t |-> t, v |-> values]

(***************************************************************************)
(* Module-level configuration.                                             *)
(***************************************************************************)
PAGE_SIZE_CAP == 100

\* os.environ.get("HELPSCOUT_API_KEY", ""): an unset variable reads as "".
Keys == {"", "key-1"}

AUTH == <<HELPSCOUT_API_KEY, "X">>

Tools == {"search_articles", "get_article", "list_collections", "list_articles"}

\* A check that lets the empty key through.
check_api_key_skipped == TRUE

\* _check_api_key returns normally iff the key is non-empty.
_check_api_key == HELPSCOUT_API_KEY # ""

ConfigurationError ==
    [kind |-> "error", type |-> "RuntimeError",
     message |-> "HELPSCOUT_API_KEY environment variable is not set."]

(***************************************************************************)
(* Arguments of a call.                                                    *)
(***************************************************************************)
PageSizes == {-1, 0, 20, PAGE_SIZE_CAP - 1, PAGE_SIZE_CAP, PAGE_SIZE_CAP + 1, 500}

PageArgs == {1, 2}

AllArgs(op) ==
    CASE op = "search_articles" ->
           [query : {"xyz"}, collection_id : {None, "c1"},
            page : PageArgs, page_size : PageSizes]
      [] op = "get_article" -> [article_id : {"a1"}]
      [] op = "list_collections" -> [page : PageArgs]
      [] op = "list_articles" ->
           [collection_id : {"c1"}, page : PageArgs, page_size : PageSizes]

\* The calls with every argument but the required ones left at its default.
DefaultArgs(op) ==
    CASE op = "search_articles" ->
           {[query |-> "xyz", collection_id |-> None, page |-> 1, page_size |-> 20]}
      [] op = "get_article" -> {[article_id |-> "a1"]}
      [] op = "list_collections" -> {[page |-> 1]}
      [] op = "list_articles" ->
           {[collection_id |-> "c1", page |-> 1, page_size |-> 50]}

(***************************************************************************)
(* The request each tool sends.                                            *)
(***************************************************************************)
\* The page size sent as given.
PageSizeUncapped(page_size) == page_size

PageSizeParam(page_size) == Min(page_size, PAGE_SIZE_CAP)

Params(op, args) ==
    CASE op = "search_articles" ->
           LET params == [query |-> args.query, status |-> "published",
                          visibility |-> "public", page |-> args.page,
                          pageSize |-> PageSizeParam(args.page_size)]
           IN  IF Truthy(args.collection_id)
               THEN [k \in DOMAIN params \cup {"collectionId"} |->
                        IF k = "collectionId" THEN args.collection_id ELSE params[k]]
               ELSE params
      [] op = "get_article" -> EmptyDict
      [] op = "list_collections" ->
           [page |-> args.page, visibility |-> "public", order |-> "asc"]
      [] op = "list_articles" ->
           [page |-> args.page, status |-> "published",
            pageSize |-> PageSizeParam(args.page_size),
            sort |-> "name", order |-> "asc"]

Url(op, args) ==
    CASE op = "search_articles" -> <<"/search/articles">>
      [] op = "get_article" -> <<"/articles/", args.article_id>>
      [] op = "list_collections" -> <<"/collections">>
      [] op = "list_articles" -> <<"/collections/", args.collection_id, "/articles">>

Request(op, args) ==
    [method |-> "GET", url |-> Url(op, args), params |-> Params(op, args),
     auth |-> AUTH]

(***************************************************************************)
(* What the upstream service can answer.                                   *)
(***************************************************************************)
OptVals(S) == {<<>>} \cup {<<x>> : x \in S}

\* The JSON object holding the fields of f that are present.
MkDict(f) == [k \in {n \in DOMAIN f : f[n] # <<>>} |-> f[k][1]]

SeqsUpTo(S, n) == UNION {[1..m -> S] : m \in 0..n}

ArticleItems ==
    {[id |-> "a1", name |-> "Reset password", url |-> "https://docs/a1",
      publicUrl |-> "https://docs/p/a1", preview |-> <<" ", "h", "i", " ">>],
     [id |-> "a2", name |-> "Billing", url |-> "https://docs/a2",
      publicUrl |-> "https://docs/p/a2", preview |-> <<" ", "\n">>],
     EmptyDict}

CollectionItems ==
    {[id |-> "c1", name |-> "Guides", publishedArticleCount |-> 4,
      description |-> <<"d", " ">>, publicUrl |-> "https://docs/c1"],
     [id |-> "c2", name |-> "FAQ", publishedArticleCount |-> 2,
      description |-> <<" ">>, publicUrl |-> "https://docs/c2"],
     EmptyDict}

Envelopes(I) ==
    {MkDict(f) : f \in [items : OptVals(SeqsUpTo(I, MaxItems)),
                        count : OptVals({7}),
                        page : OptVals(1..MaxPages),
                        pages : OptVals(1..MaxPages)]}

Articles ==
    {MkDict(f) : f \in [name : OptVals({"Reset password"}),
                        status : OptVals({"published"}),
                        publicUrl : OptVals({"https://docs/p/a1"}),
                        updatedAt : OptVals({"2024-01-01T00:00:00Z"}),
                        viewCount : OptVals({12}),
                        text : OptVals({"", "Body"})]}

AllData(op) ==
    CASE op = "get_article" -> {EmptyDict} \cup {[article |-> a] : a \in Articles}
      [] op = "list_collections" ->
           {EmptyDict} \cup {[collections |-> e] : e \in Envelopes(CollectionItems)}
      [] OTHER -> {EmptyDict} \cup {[articles |-> e] : e \in Envelopes(ArticleItems)}

FirstItem(op) ==
    IF op = "list_collections"
    THEN [id |-> "c1", name |-> "Guides", publishedArticleCount |-> 4,
          description |-> <<"d", " ">>, publicUrl |-> "https://docs/c1"]
    ELSE [id |-> "a1", name |-> "Reset password", url |-> "https://docs/a1",
          publicUrl |-> "https://docs/p/a1", preview |-> <<" ", "h", "i", " ">>]

\* One page of a longer listing, and the listing's last page.
SampleData(op) ==
    CASE op = "get_article" ->
           {[article |-> [name |-> "Reset password", text |-> "Body"]]}
      [] op = "list_collections" ->
           {[collections |-> [items |-> <<FirstItem(op)>>, count |-> 7,
                              page |-> p, pages |-> 2]] : p \in {1, 2}}
      [] OTHER ->
           {[articles |-> [items |-> <<FirstItem(op)>>, count |-> 7,
                           page |-> p, pages |-> 2]] : p \in {1, 2}}

\* A body is <<>> when it is not JSON and <<d>> when it parses to d.
Failures == {[kind |-> "timeout"], [kind |-> "connect_error"]}

AllResponses(op) ==
    Failures
    \cup [kind : {"http"}, status : {200},
          body : OptVals(AllData(op))]
    \cup [kind : {"http"}, status : {302, 404, 500},
          body : OptVals(SampleData(op))]

FewResponses(op) ==
    Failures
    \cup [kind : {"http"}, status : {200},
          body : OptVals({EmptyDict} \cup SampleData(op))]
    \cup [kind : {"http"}, status : {500},
          body : {<<d>> : d \in SampleData(op)}]

\* A response whose status is never looked at.
StatusIgnored(status) == {FALSE}

\* Response.raise_for_status: whether it raises.  It raises on 4xx and 5xx
\* and never on 2xx; on 1xx and 3xx it depends on the installed httpx.
RaiseForStatus(status) ==
    IF status >= 400 THEN {TRUE}
    ELSE IF status >= 200 /\ status < 300 THEN {FALSE}
    ELSE {TRUE, FALSE}

(***************************************************************************)
(* Rendering: the part of each tool after its async with block.          *)
(***************************************************************************)
Text(lines) == [kind |-> "text", text |-> lines]

\* The hint also on the last page.
HintOnLastPage(t, current_page, total_pages) ==
    IF current_page <= total_pages
    THEN <<Line(t, [page |-> current_page + 1])>>
    ELSE <<>>

\* if current_page < total_pages: lines.append(<hint naming current_page + 1>)
NextPageHint(t, current_page, total_pages) ==
    IF current_page < total_pages
    THEN <<Line(t, [page |-> current_page + 1])>>
    ELSE <<>>

\* The preview tested for emptiness without strip().
SearchBlockUnstripped(article) ==
    LET preview == Get(article, "preview", <<>>)
    IN  <<Line("### {name}", [name |-> Get(article, "name", "Untitled")]),
          Line("- **ID:** {id}", [id |-> Get(article, "id", "")]),
          Line("- **URL:** {url}", [url |-> Get(article, "url", "N/A")])>>
        \o (IF preview # <<>>
            THEN <<Line("- **Preview:** {preview}", [preview |-> preview])>>
            ELSE <<>>)
        \o <<Line("", EmptyDict)>>

SearchBlock(article) ==
    LET preview == Strip(Get(article, "preview", <<>>))
    IN  <<Line("### {name}", [name |-> Get(article, "name", "Untitled")]),
          Line("- **ID:** {id}", [id |-> Get(article, "id", "")]),
          Line("- **URL:** {url}", [url |-> Get(article, "url", "N/A")])>>
        \o (IF preview # <<>>
            THEN <<Line("- **Preview:** {preview}", [preview |-> preview])>>
            ELSE <<>>)
        \o <<Line("", EmptyDict)>>

CollectionBlock(col) ==
    LET desc == Strip(Get(col, "description", <<>>))
    IN  <<Line("### {name}", [name |-> Get(col, "name", "Untitled")]),
          Line("- **ID:** {id}", [id |-> Get(col, "id", "")]),
          Line("- **Published articles:** {publishedArticleCount}",
               [publishedArticleCount |-> Get(col, "publishedArticleCount", 0)])>>
        \o (IF desc # <<>>
            THEN <<Line("- **Description:** {desc}", [desc |-> desc])>>
            ELSE <<>>)
        \o <<Line("- **URL:** {publicUrl}", [publicUrl |-> Get(col, "publicUrl", "N/A")]),
             Line("", EmptyDict)>>

ArticleBlock(article) ==
    <<Line("- **{name}**", [name |-> Get(article, "name", "Untitled")]),
      Line("  ID: {id}  |  URL: {publicUrl}",
           [id |-> Get(article, "id", ""),
            publicUrl |-> Get(article, "publicUrl", "N/A")])>>

Block(op, x) ==
    CASE op = "search_articles" -> SearchBlock(x)
      [] op = "list_collections" -> CollectionBlock(x)
      [] op = "list_articles" -> ArticleBlock(x)

RECURSIVE Blocks(_, _, _)
\* for x in items: lines.append(...), from the k-th item on.
Blocks(op, items, k) ==
    IF k > Len(items) THEN <<>>
    ELSE Block(op, items[k]) \o Blocks(op, items, k + 1)

search_articles_text(args, data) ==
    LET envelope == Get(data, "articles", EmptyDict)
        items == Get(envelope, "items", <<>>)
        total == Get(envelope, "count", Len(items))
        current_page == Get(envelope, "page", args.page)
        total_pages == Get(envelope, "pages", 1)
    IN  IF Len(items) = 0
        THEN <<Line("No published articles found matching \"{query}\".",
                    [query |-> args.query])>>
        ELSE <<Line("Found {total} article(s) matching \"{query}\" (page {current_page} of {total_pages}):\n",
                    [total |-> total, query |-> args.query,
                     current_page |-> current_page, total_pages |-> total_pages])>>
             \o Blocks("search_articles", items, 1)
             \o NextPageHint("_Call search_articles again with page={page} for more results._",
                             current_page, total_pages)

\* get_article without its not-found branch.
get_article_text_unchecked(args, data) ==
    LET article == Get(data, "article", EmptyDict)
    IN  <<Line("# {name}", [name |-> Get(article, "name", "Untitled")]),
          Line("", EmptyDict),
          Line("**Status:** {status}", [status |-> Get(article, "status", "unknown")]),
          Line("**Public URL:** {publicUrl}",
               [publicUrl |-> Get(article, "publicUrl", "N/A")]),
          Line("**Last updated:** {updatedAt}",
               [updatedAt |-> Get(article, "updatedAt", "N/A")]),
          Line("**Views:** {viewCount}", [viewCount |-> Get(article, "viewCount", 0)]),
          Line("", EmptyDict),
          Line("---", EmptyDict),
          Line("", EmptyDict),
          Line("_No content available._", EmptyDict)>>

get_article_text(args, data) ==
    LET article == Get(data, "article", EmptyDict)
        text == Get(article, "text", "")
    IN  IF article = EmptyDict
        THEN <<Line("Article {article_id} not found.",
                    [article_id |-> args.article_id])>>
        ELSE <<Line("# {name}", [name |-> Get(article, "name", "Untitled")]),
               Line("", EmptyDict),
               Line("**Status:** {status}", [status |-> Get(article, "status", "unknown")]),
               Line("**Public URL:** {publicUrl}",
                    [publicUrl |-> Get(article, "publicUrl", "N/A")]),
               Line("**Last updated:** {updatedAt}",
                    [updatedAt |-> Get(article, "updatedAt", "N/A")]),
               Line("**Views:** {viewCount}", [viewCount |-> Get(article, "viewCount", 0)]),
               Line("", EmptyDict),
               Line("---", EmptyDict),
               Line("", EmptyDict),
               IF text # "" THEN Line("{text}", [text |-> text])
               ELSE Line("_No content available._", EmptyDict)>>

\* list_collections with the hint its two sibling tools append.
list_collections_text_hinting(args, data) ==
    LET envelope == Get(data, "collections", EmptyDict)
        items == Get(envelope, "items", <<>>)
        total == Get(envelope, "count", Len(items))
        current_page == Get(envelope, "page", args.page)
        total_pages == Get(envelope, "pages", 1)
    IN  IF Len(items) = 0
        THEN <<Line("No collections found.", EmptyDict)>>
        ELSE <<Line("Found {total} collection(s) (page {current_page} of {total_pages}):\n",
                    [total |-> total, current_page |-> current_page,
                     total_pages |-> total_pages])>>
             \o Blocks("list_collections", items, 1)
             \o NextPageHint("_Call list_collections again with page={page} for more results._",
                             current_page, total_pages)

list_collections_text(args, data) ==
    LET envelope == Get(data, "collections", EmptyDict)
        items == Get(envelope, "items", <<>>)
        total == Get(envelope, "count", Len(items))
        current_page == Get(envelope, "page", args.page)
        total_pages == Get(envelope, "pages", 1)
    IN  IF Len(items) = 0
        THEN <<Line("No collections found.", EmptyDict)>>
        ELSE <<Line("Found {total} collection(s) (page {current_page} of {total_pages}):\n",
                    [total |-> total, current_page |-> current_page,
                     total_pages |-> total_pages])>>
             \o Blocks("list_collections", items, 1)

list_articles_text(args, data) ==
    LET envelope == Get(data, "articles", EmptyDict)
        items == Get(envelope, "items", <<>>)
        total == Get(envelope, "count", Len(items))
        current_page == Get(envelope, "page", args.page)
        total_pages == Get(envelope, "pages", 1)
    IN  IF Len(items) = 0
        THEN <<Line("No published articles found in collection {collection_id}.",
                    [collection_id |-> args.collection_id])>>
        ELSE <<Line("Found {total} article(s) in collection {collection_id} (page {current_page} of {total_pages}):\n",
                    [total |-> total, collection_id |-> args.collection_id,
                     current_page |-> current_page, total_pages |-> total_pages])>>
             \o Blocks("list_articles", items, 1)
             \o NextPageHint("\n_Call list_articles again with page={page} for more results._",
                             current_page, total_pages)

(***************************************************************************)
(* The state machine.                                                      *)
(*   HELPSCOUT_API_KEY  the credential read from the environment at import *)
(*   inv[i]             invocation i of a tool: where its coroutine stands *)
(*                      (pc), its tool and arguments, the client it holds, *)
(*                      how many clients it opened, the requests it sent,  *)
(*                      the upstream answer, the parsed JSON, its outcome  *)
(*   clients[c]         the AsyncClient created by invocation c            *)
(***************************************************************************)
Idle ==
    [pc |-> "idle", op |-> "none", args |-> EmptyDict, client |-> 0, opened |-> 0,
     requests |-> <<>>, resp |-> <<>>, data |-> <<>>, result |-> <<>>]

Init ==
    /\ HELPSCOUT_API_KEY \in Keys
    /\ inv = [i \in Invocations |-> Idle]
    /\ clients = [c \in Invocations |-> "unborn"]

\* The tool is called: it runs up to its first await.  _check_api_key raises
\* before anything else when the key is empty.
Invoke(i, op, args) ==
    /\ inv[i].pc = "idle"
    /\ inv' = [inv EXCEPT ![i] =
                 IF _check_api_key
                 THEN [@ EXCEPT !.pc = "checked", !.op = op, !.args = args]
                 ELSE [@ EXCEPT !.pc = "done", !.op = op, !.args = args,
                                !.result = <<ConfigurationError>>]]
    /\ UNCHANGED <<HELPSCOUT_API_KEY, clients>>

\* One module-level client used by every invocation.
SharedClient(i) == 1

\* httpx.AsyncClient(timeout=15.0): the object this invocation creates.
NewClient(i) == i

\* async with httpx.AsyncClient(timeout=15.0) as client:
AsyncClient(i) ==
    /\ inv[i].pc = "checked"
    /\ LET client == NewClient(i)
       IN  /\ inv' = [inv EXCEPT ![i].pc = "entered", ![i].client = client,
                                 ![i].opened = @ + 1]
           /\ clients' = [clients EXCEPT ![client] = "open"]
    /\ UNCHANGED HELPSCOUT_API_KEY

\* A get that sends its request a second time.
client_get_twice(i) ==
    /\ inv[i].pc = "entered"
    /\ inv' = [inv EXCEPT ![i].pc = "awaiting",
                 ![i].requests = @ \o <<Request(inv[i].op, inv[i].args),
                                        Request(inv[i].op, inv[i].args)>>]
    /\ UNCHANGED <<HELPSCOUT_API_KEY, clients>>

\* resp = await client.get(url, params=params, auth=AUTH): the request leaves
\* and the coroutine is suspended.
client_get(i) ==
    /\ inv[i].pc = "entered"
    /\ IF clients[inv[i].client] = "open"
       THEN /\ inv' = [inv EXCEPT ![i].pc = "awaiting",
                         ![i].requests = Append(@, Request(inv[i].op, inv[i].args))]
            /\ UNCHANGED clients
       ELSE \* httpx refuses to send on a closed client.
            /\ inv' = [inv EXCEPT ![i].pc = "done",
                         ![i].result = <<[kind |-> "error", type |-> "RuntimeError",
                                          message |-> "the client has been closed"]>>]
            /\ clients' = [clients EXCEPT ![inv[i].client] = "closed"]
    /\ UNCHANGED HELPSCOUT_API_KEY

\* A client that is never closed.
Leak(c) == clients

\* __aexit__ of the async with: runs however the block is left.
Close(c) == [clients EXCEPT ![c] = "closed"]

Raise(i, r, error) ==
    inv' = [inv EXCEPT ![i].pc = "done", ![i].resp = <<r>>, ![i].result = <<error>>]

\* The awaited get ends with r: it raises, or resp.raise_for_status() raises,
\* or resp.json() raises, or data is bound; the block is left either way.
Resume(i, r) ==
    /\ inv[i].pc = "awaiting"
    /\ \/ /\ r.kind = "timeout"
          /\ Raise(i, r, [kind |-> "error", type |-> "TimeoutException"])
       \/ /\ r.kind = "connect_error"
          /\ Raise(i, r, [kind |-> "error", type |-> "ConnectError"])
       \/ /\ r.kind = "http"
          /\ \E raises \in RaiseForStatus(r.status) :
               IF raises
               THEN Raise(i, r, [kind |-> "error", type |-> "HTTPStatusError",
                                 status |-> r.status])
               ELSE IF r.body = <<>>
               THEN Raise(i, r, [kind |-> "error", type |-> "JSONDecodeError"])
               ELSE inv' = [inv EXCEPT ![i].pc = "parsed", ![i].resp = <<r>>,
                                       ![i].data = r.body]
    /\ clients' = Close(inv[i].client)
    /\ UNCHANGED HELPSCOUT_API_KEY

Return(i, lines) ==
    /\ inv' = [inv EXCEPT ![i].pc = "done", ![i].result = <<Text(lines)>>]
    /\ UNCHANGED <<HELPSCOUT_API_KEY, clients>>

search_articles(i) ==
    /\ inv[i].pc = "parsed"
    /\ inv[i].op = "search_articles"
    /\ Return(i, search_articles_text(inv[i].args, inv[i].data[1]))

get_article(i) ==
    /\ inv[i].pc = "parsed"
    /\ inv[i].op = "get_article"
    /\ Return(i, get_article_text(inv[i].args, inv[i].data[1]))

list_collections(i) ==
    /\ inv[i].pc = "parsed"
    /\ inv[i].op = "list_collections"
    /\ Return(i, list_collections_text(inv[i].args, inv[i].data[1]))

list_articles(i) ==
    /\ inv[i].pc = "parsed"
    /\ inv[i].op = "list_articles"
    /\ Return(i, list_articles_text(inv[i].args, inv[i].data[1]))

Step(i) ==
    \/ AsyncClient(i)
    \/ client_get(i)
    \/ search_articles(i)
    \/ get_article(i)
    \/ list_collections(i)
    \/ list_articles(i)

\* Concurrent invocations, each called with its default arguments.
Next ==
    \E i \in Invocations :
        \/ /\ inv[i].pc = "idle"
           /\ \E op \in Tools : \E args \in DefaultArgs(op) : Invoke(i, op, args)
        \/ Step(i)
        \/ /\ inv[i].pc = "awaiting"
           /\ \E r \in FewResponses(inv[i].op) : Resume(i, r)

Spec == Init /\ [][Next]_vars

\* One invocation, over every argument and every upstream answer of the model.
NextSingle ==
    \/ /\ inv[1].pc = "idle"
       /\ \E op \in Tools : \E args \in AllArgs(op) : Invoke(1, op, args)
    \/ Step(1)
    \/ /\ inv[1].pc = "awaiting"
       /\ \E r \in AllResponses(inv[1].op) : Resume(1, r)

SpecSingle == Init /\ [][NextSingle]_vars

(***************************************************************************)
(* Properties.                                                             *)
(***************************************************************************)
Done(i) == inv[i].pc = "done"

Res(i) == inv[i].result[1]

Resp(i) == inv[i].resp[1]

Failed(i) == Done(i) /\ Res(i).kind = "error"

Returned(i) == Done(i) /\ Res(i).kind = "text"

\* Invocation i got a success status and a JSON body.
Success(i) ==
    /\ Done(i)
    /\ inv[i].resp # <<>>
    /\ Resp(i).kind = "http"
    /\ Resp(i).status = 200
    /\ Resp(i).body # <<>>

Body(i) == Resp(i).body[1]

ListTools == {"search_articles", "list_collections", "list_articles"}

PagedTools == {"search_articles", "list_articles"}

EnvelopeKey(op) == IF op = "list_collections" THEN "collections" ELSE "articles"

Envelope(i) == Body(i)[EnvelopeKey(inv[i].op)]

\* A success whose envelope holds at least one item.
NonEmpty(i) ==
    /\ Success(i)
    /\ inv[i].op \in ListTools
    /\ EnvelopeKey(inv[i].op) \in DOMAIN Body(i)
    /\ "items" \in DOMAIN Envelope(i)
    /\ Len(Envelope(i).items) > 0

OrElse(d, key, placeholder) == IF key \in DOMAIN d THEN d[key] ELSE placeholder

LinesOf(text, t) == SelectSeq(text, LAMBDA l : l.t = t)

IsHint(l) == DOMAIN l.v = {"page"}

Blank(s) == \A k \in 1..Len(s) : IsSpace(s[k])

\* C1: with the credential absent or empty, an invocation of any tool is, at
\* every point after its call, finished with the configuration error, having
\* opened no client and sent no request.
C1_NoKeyNoRequest ==
    \A i \in Invocations :
        (HELPSCOUT_API_KEY = "" /\ inv[i].pc # "idle") =>
            /\ Failed(i)
            /\ Res(i) = ConfigurationError
            /\ inv[i].requests = <<>>
            /\ inv[i].opened = 0
            /\ inv[i].resp = <<>>

C1_Witness ==
    /\ HELPSCOUT_API_KEY = ""
    /\ \E i \in Invocations :
         /\ Failed(i)
         /\ inv[i].op = "list_articles"
         /\ inv[i].args.page_size = 500
         /\ inv[i].requests = <<>>

\* C2: with a credential configured, an invocation has at no point sent more
\* than one request, has sent exactly one once it waits for the answer and
\* when it has finished, whatever its outcome, and every request is a GET.
C2_OneGet ==
    \A i \in Invocations :
        /\ \A k \in 1..Len(inv[i].requests) : inv[i].requests[k].method = "GET"
        /\ HELPSCOUT_API_KEY # "" =>
             /\ Len(inv[i].requests) <= 1
             /\ inv[i].pc \in {"awaiting", "parsed", "done"} => Len(inv[i].requests) = 1

C2_Witness ==
    \E i \in Invocations :
        /\ Failed(i)
        /\ inv[i].resp # <<>>
        /\ Resp(i).kind = "timeout"
        /\ inv[i].op = "get_article"
        /\ Len(inv[i].requests) = 1
        /\ inv[i].requests[1].method = "GET"

\* C3: an invocation whose request ended with a status >= 400, a network
\* failure or a timeout has an error as its outcome (with the status, for a
\* status), no text, and has sent one request and no more; any finished
\* invocation has exactly one outcome, a text or an error, and an unfinished
\* one has none.
C3_FailsWhole ==
    \A i \in Invocations :
        /\ Done(i) <=> inv[i].result # <<>>
        /\ Done(i) =>
             /\ Len(inv[i].result) = 1
             /\ Res(i).kind \in {"text", "error"}
             /\ Res(i).kind = "error" <=> "text" \notin DOMAIN Res(i)
             /\ Res(i).kind = "text" => Len(Res(i).text) > 0
        /\ (Done(i) /\ inv[i].resp # <<>>) =>
             /\ Resp(i).kind \in {"timeout", "connect_error"} =>
                  Failed(i) /\ Len(inv[i].requests) = 1
             /\ (Resp(i).kind = "http" /\ Resp(i).status >= 400) =>
                  /\ Failed(i)
                  /\ "status" \in DOMAIN Res(i)
                  /\ Res(i).status = Resp(i).status
                  /\ Len(inv[i].requests) = 1

C3_Witness ==
    \E i \in Invocations :
        /\ Failed(i)
        /\ inv[i].resp # <<>>
        /\ Resp(i).kind = "http"
        /\ Resp(i).status = 404
        /\ Resp(i).body # <<>>
        /\ Res(i).status = 404

\* C4: the request of search_articles and of list_articles carries
\* pageSize = min(page_size, 100): never above 100, 100 for a page_size above
\* 100 (the call is not rejected: its request is sent), page_size otherwise.
C4_PageSizeCapped ==
    \A i \in Invocations :
        inv[i].op \in PagedTools =>
            /\ inv[i].pc \in {"awaiting", "parsed"} => Len(inv[i].requests) = 1
            /\ \A k \in 1..Len(inv[i].requests) :
                 LET sent == inv[i].requests[k].params.pageSize
                     page_size == inv[i].args.page_size
                 IN  /\ sent <= 100
                     /\ page_size > 100 => sent = 100
                     /\ page_size <= 100 => sent = page_size

C4_Witness ==
    \E i \in Invocations :
        /\ inv[i].op = "list_articles"
        /\ inv[i].args.page_size = 500
        /\ Returned(i)
        /\ inv[i].requests[1].params.pageSize = 100

\* C5: for search_articles and list_articles on a non-empty items list, the
\* last line of the returned text is the next-page hint iff the current page
\* is less than the total page count, the hint names the current page + 1,
\* and no other line is a hint; the current page and the total are the
\* envelope's page and pages (the requested page and 1 when it lacks them).
C5_NextPageHint ==
    \A i \in Invocations :
        (NonEmpty(i) /\ inv[i].op \in PagedTools) =>
            LET text == Res(i).text
                last == Last(text)
                page == OrElse(Envelope(i), "page", inv[i].args.page)
                pages == OrElse(Envelope(i), "pages", 1)
            IN  /\ Returned(i)
                /\ IsHint(last) <=> page < pages
                /\ IsHint(last) => last.v.page = page + 1
                /\ \A k \in 1..(Len(text) - 1) : ~IsHint(text[k])

C5_Witness ==
    \E i \in Invocations :
        /\ NonEmpty(i)
        /\ inv[i].op = "search_articles"
        /\ {"page", "pages"} \subseteq DOMAIN Envelope(i)
        /\ Envelope(i).page = 1
        /\ Envelope(i).pages = 3
        /\ Last(Res(i).text) =
             Line("_Call search_articles again with page={page} for more results._",
                  [page |-> 2])

\* C6: no line of a text list_collections returns is a next-page hint,
\* whatever the requested page and the envelope's page and pages.
C6_NoHintForCollections ==
    \A i \in Invocations :
        (Done(i) /\ inv[i].op = "list_collections" /\ HELPSCOUT_API_KEY # "") =>
            /\ Success(i) => Returned(i)
            /\ Returned(i) => \A k \in 1..Len(Res(i).text) : ~IsHint(Res(i).text[k])

C6_Witness ==
    \E i \in Invocations :
        /\ NonEmpty(i)
        /\ inv[i].op = "list_collections"
        /\ {"page", "pages"} \subseteq DOMAIN Envelope(i)
        /\ Envelope(i).page < Envelope(i).pages
        /\ Returned(i)

\* C7: on a success whose JSON lacks the envelope key, or whose envelope holds
\* an empty items list, the three listing tools return their no-results
\* sentence (naming the query or the collection); get_article on a JSON with
\* no article key returns the not-found sentence naming the identifier.
C7_EmptyIsSuccess ==
    \A i \in Invocations :
        Success(i) =>
            LET op == inv[i].op
                empty == \/ EnvelopeKey(op) \notin DOMAIN Body(i)
                         \/ /\ "items" \in DOMAIN Envelope(i)
                            /\ Envelope(i).items = <<>>
            IN  /\ (op = "search_articles" /\ empty) =>
                     Res(i) = Text(<<Line("No published articles found matching \"{query}\".",
                                          [query |-> inv[i].args.query])>>)
                /\ (op = "list_collections" /\ empty) =>
                     Res(i) = Text(<<Line("No collections found.", EmptyDict)>>)
                /\ (op = "list_articles" /\ empty) =>
                     Res(i) = Text(<<Line("No published articles found in collection {collection_id}.",
                                          [collection_id |-> inv[i].args.collection_id])>>)
                /\ (op = "get_article" /\ "article" \notin DOMAIN Body(i)) =>
                     Res(i) = Text(<<Line("Article {article_id} not found.",
                                          [article_id |-> inv[i].args.article_id])>>)

C7_Witness ==
    \E i \in Invocations :
        /\ Success(i)
        /\ inv[i].op = "get_article"
        /\ "article" \notin DOMAIN Body(i)
        /\ Returned(i)

\* The lines of template t are one per item, in the items' order, and each
\* shows the item's field, or the placeholder when the item lacks it.
Shows(text, items, t, field, placeholder) ==
    LET ls == LinesOf(text, t)
    IN  /\ Len(ls) = Len(items)
        /\ \A k \in 1..Len(items) : ls[k].v[field] = OrElse(items[k], field, placeholder)

\* The lines of template t are one per item whose field is present and not
\* blank; none of them is blank.
OmitsBlank(text, items, t, field) ==
    LET ls == LinesOf(text, t)
        shown == SelectSeq(items, LAMBDA x : ~Blank(OrElse(x, field, <<>>)))
    IN  /\ Len(ls) = Len(shown)
        /\ \A k \in 1..Len(ls) : \E f \in DOMAIN ls[k].v : ~Blank(ls[k].v[f])

\* What a listing tool shows of its items, missing fields included.
ItemsShown(i) ==
    LET text == Res(i).text
        items == Envelope(i).items
    IN  CASE inv[i].op = "search_articles" ->
               /\ Shows(text, items, "### {name}", "name", "Untitled")
               /\ Shows(text, items, "- **ID:** {id}", "id", "")
               /\ Shows(text, items, "- **URL:** {url}", "url", "N/A")
               /\ OmitsBlank(text, items, "- **Preview:** {preview}", "preview")
          [] inv[i].op = "list_collections" ->
               /\ Shows(text, items, "### {name}", "name", "Untitled")
               /\ Shows(text, items, "- **ID:** {id}", "id", "")
               /\ Shows(text, items, "- **Published articles:** {publishedArticleCount}",
                        "publishedArticleCount", 0)
               /\ Shows(text, items, "- **URL:** {publicUrl}", "publicUrl", "N/A")
               /\ OmitsBlank(text, items, "- **Description:** {desc}", "description")
          [] inv[i].op = "list_articles" ->
               /\ Shows(text, items, "- **{name}**", "name", "Untitled")
               /\ Shows(text, items, "  ID: {id}  |  URL: {publicUrl}", "id", "")
               /\ Shows(text, items, "  ID: {id}  |  URL: {publicUrl}", "publicUrl", "N/A")

\* A success of get_article that holds an article.
Found(i) ==
    /\ Success(i)
    /\ inv[i].op = "get_article"
    /\ "article" \in DOMAIN Body(i)
    /\ Body(i).article # EmptyDict

\* What get_article shows of a found article, missing fields included.
ArticleShown(i) ==
    LET text == Res(i).text
        article == Body(i).article
        one == <<article>>
    IN  /\ Shows(text, one, "# {name}", "name", "Untitled")
        /\ Shows(text, one, "**Public URL:** {publicUrl}", "publicUrl", "N/A")
        /\ Shows(text, one, "**Last updated:** {updatedAt}", "updatedAt", "N/A")
        /\ Shows(text, one, "**Views:** {viewCount}", "viewCount", 0)
        /\ Last(text) =
             IF OrElse(article, "text", "") = ""
             THEN Line("_No content available._", EmptyDict)
             ELSE Line("{text}", [text |-> article.text])

\* C8 as stated: on a success with a non-empty result the tool returns its
\* text whatever is missing, each missing field shown as its placeholder:
\* name "Untitled", URL and timestamp "N/A", identifier "", blank preview and
\* description lines omitted, absent or empty body "no content available",
\* and every count, the envelope's count among them, 0.
C8_CountsZero ==
    \A i \in Invocations :
        /\ NonEmpty(i) =>
             /\ Returned(i)
             /\ ItemsShown(i)
             /\ Res(i).text[1].v.total = OrElse(Envelope(i), "count", 0)
        /\ Found(i) => Returned(i) /\ ArticleShown(i)

\* C8, amended: as stated for the fields of an item and of an article (their
\* counts, viewCount and publishedArticleCount, are shown as 0); a missing
\* envelope count is shown as the number of items in the returned list.  Also
\* checked: a missing status is shown as "unknown", a missing page as the
\* requested page, a missing pages as 1.
C8_Placeholders ==
    \A i \in Invocations :
        /\ NonEmpty(i) =>
             /\ Returned(i)
             /\ ItemsShown(i)
             /\ LET header == Res(i).text[1].v
                    envelope == Envelope(i)
                IN  /\ header.total = OrElse(envelope, "count", Len(envelope.items))
                    /\ header.current_page = OrElse(envelope, "page", inv[i].args.page)
                    /\ header.total_pages = OrElse(envelope, "pages", 1)
        /\ Found(i) =>
             /\ Returned(i)
             /\ ArticleShown(i)
             /\ Shows(Res(i).text, <<Body(i).article>>, "**Status:** {status}",
                      "status", "unknown")

C8_Witness ==
    \E i \in Invocations :
        /\ NonEmpty(i)
        /\ inv[i].op = "search_articles"
        /\ "count" \notin DOMAIN Envelope(i)
        /\ Envelope(i).items = <<EmptyDict, FirstItem("search_articles")>>
        /\ Returned(i)
        /\ Res(i).text[1].v.total = 2
        /\ Res(i).text[2] = Line("### {name}", [name |-> "Untitled"])

\* C9: an invocation opens at most one client, one no other invocation
\* holds; once it has finished, by a text, an upstream status, a timeout, a
\* network error or a JSON that does not parse, its client is closed; a
\* client is open only while its invocation is inside the async with block.
C9_ClientClosed ==
    /\ \A i \in Invocations :
         /\ inv[i].opened <= 1
         /\ inv[i].opened = 1 <=> inv[i].client # 0
         /\ (Done(i) /\ HELPSCOUT_API_KEY # "") => inv[i].opened = 1
         /\ (Done(i) /\ inv[i].client # 0) => clients[inv[i].client] = "closed"
         /\ \A j \in Invocations \ {i} :
              inv[i].client # 0 => inv[i].client # inv[j].client
    /\ \A c \in Invocations :
         clients[c] = "open" =>
             \E i \in Invocations :
                 inv[i].client = c /\ inv[i].pc \in {"entered", "awaiting"}

C9_Witness ==
    \E i, j \in Invocations :
        /\ Failed(i) /\ Res(i).type = "JSONDecodeError"
        /\ Failed(j) /\ Res(j).type = "HTTPStatusError"
        /\ inv[i].client # inv[j].client
        /\ clients[inv[i].client] = "closed"
        /\ clients[inv[j].client] = "closed"

\* The outcomes of a tool that runs from its call to its return with nothing
\* else running: the function body read top to bottom.
RunAlone(key, op, args, resp) ==
    IF key = "" THEN {ConfigurationError}
    ELSE IF resp = <<>> THEN {}
    ELSE LET r == resp[1]
         IN  CASE r.kind = "timeout" -> {[kind |-> "error", type |-> "TimeoutException"]}
               [] r.kind = "connect_error" -> {[kind |-> "error", type |-> "ConnectError"]}
               [] r.kind = "http" ->
                    {IF raises
                     THEN [kind |-> "error", type |-> "HTTPStatusError", status |-> r.status]
                     ELSE IF r.body = <<>>
                     THEN [kind |-> "error", type |-> "JSONDecodeError"]
                     ELSE Text(CASE op = "search_articles" ->
                                      search_articles_text(args, r.body[1])
                                 [] op = "get_article" -> get_article_text(args, r.body[1])
                                 [] op = "list_collections" ->
                                      list_collections_text(args, r.body[1])
                                 [] op = "list_articles" ->
                                      list_articles_text(args, r.body[1]))
                     : raises \in RaiseForStatus(r.status)}

\* The outcome of a finished invocation is one it has when run alone on its
\* own arguments and its own upstream answer, and two invocations that agree
\* on these agree on the outcome.
OwnOutcome ==
    \A i \in Invocations :
        Done(i) =>
            /\ Res(i) \in RunAlone(HELPSCOUT_API_KEY, inv[i].op, inv[i].args, inv[i].resp)
            /\ \A j \in Invocations :
                 (Done(j) /\ inv[j].op = inv[i].op /\ inv[j].args = inv[i].args
                    /\ inv[j].resp = inv[i].resp) => Res(j) = Res(i)

\* A step is the step of one invocation: it leaves the other invocations and
\* their clients as they are, and the credential as it is.
Isolated ==
    /\ HELPSCOUT_API_KEY' = HELPSCOUT_API_KEY
    /\ \A i \in Invocations :
         inv'[i] # inv[i] =>
             /\ \A j \in Invocations \ {i} : inv'[j] = inv[j]
             /\ \A c \in Invocations : clients'[c] # clients[c] => c = inv'[i].client

\* C10: with invocations in flight together and their answers arriving in any
\* order, each outcome is the one the invocation has alone, a function of its
\* own arguments, its own upstream answer and the credential; no step of one
\* invocation changes another's state; no step changes the credential.
C10_Independent == []OwnOutcome /\ [][Isolated]_vars

C10_Witness ==
    \E i, j \in Invocations :
        /\ i < j
        /\ inv[i].pc = "awaiting"
        /\ Returned(j)
        /\ inv[j].op = inv[i].op
        /\ clients[i] = "open"
        /\ clients[j] = "closed"

====
